---- MODULE Spec2Model ----
(***************************************************************************)
(* Client authentication of the authorization server:                      *)
(*   crates/axum-utils/src/client_authorization.rs                         *)
(* ClientAuthorization::from_request decodes the Authorization header and  *)
(* the form body and resolves them to one Credentials value or one         *)
(* ClientAuthorizationError; Credentials::verify checks the credentials    *)
(* against a client record and the client's declared method.               *)
(***************************************************************************)
EXTENDS Integers, Sequences, FiniteSets, TLC

(***************************************************************************)
(* Bounds of the model.  Strings that the program only compares for        *)
(* equality (client ids, secrets, keys, residual payloads) are numbered.   *)
(***************************************************************************)
MaxClientId == 2
MaxSecret == 2
MaxKey == 1
MaxPayload == 2

ClientIds == 1..MaxClientId
ClientSecrets == 1..MaxSecret
Keys == 1..MaxKey
Payloads == 1..MaxPayload

(***************************************************************************)
(* Option<T> and Result<T, E>.                                             *)
(***************************************************************************)
None == <<>>
Some(x) == <<x>>
IsSome(o) == o # None
Option(S) == {None} \cup {Some(x) : x \in S}

Ok(v) == [ok |-> TRUE, val |-> v]
Err(e) == [ok |-> FALSE, err |-> e]

(***************************************************************************)
(* Inputs of a request.                                                    *)
(***************************************************************************)
JWT_BEARER_CLIENT_ASSERTION == "urn:ietf:params:oauth:client-assertion-type:jwt-bearer"

\* Values a form can carry in client_assertion_type: the bearer URN and
\* strings that are not it (one of them empty).
AssertionTypes ==
    {JWT_BEARER_CLIENT_ASSERTION,
     "urn:ietf:params:oauth:client-assertion-type:saml2-bearer",
     ""}

\* The "sub" entry of a JWT payload (a serde_json::Value), when there is one.
SubClaims ==
    {None, Some([ty |-> "Number", v |-> 0])}
        \cup {Some([ty |-> "String", v |-> id]) : id \in ClientIds}

\* The key under which a JWT's signature verifies: a shared secret (HS256),
\* a private key whose public half is Keys' member (RS256), or no key at all
\* (a tampered signature).
Signers ==
    {[alg |-> "HS256", key |-> s] : s \in ClientSecrets}
        \cup {[alg |-> "RS256", key |-> k] : k \in Keys}
        \cup {[alg |-> "HS256", key |-> 0]}

\* Values a form can carry in client_assertion: a string that is no JWT, or
\* the compact serialization of a JWT.
Assertions ==
    {[wellformed |-> FALSE]}
        \cup {[wellformed |-> TRUE, sub |-> c, signer |-> g] :
                 c \in SubClaims, g \in Signers}

\* AuthorizedForm<F>, where the body deserialized.
AuthorizedForm ==
    [client_id : Option(ClientIds),
     client_secret : Option(ClientSecrets),
     client_assertion_type : Option(AssertionTypes),
     client_assertion : Option(Assertions),
     inner : Payloads]

\* What TypedHeader::<Authorization<Basic>>::from_request_parts gives.
Headers ==
    {[kind |-> "Missing"], [kind |-> "Error"]}
        \cup {[kind |-> "Basic", username |-> id, password |-> s] :
                 id \in ClientIds, s \in ClientSecrets}

\* The failures of reading a body that are no complaint about a form.
BodyFailures == {"body read twice", "byte stream broke"}

\* What Form::<AuthorizedForm<F>>::from_request gives.
Bodies ==
    {[kind |-> "InvalidFormContentType"],
     [kind |-> "FailedToDeserializeForm"]}
        \cup {[kind |-> "BytesRejection", cause |-> c] : c \in BodyFailures}
        \cup {[kind |-> "Form", form |-> f] : f \in AuthorizedForm}

Requests == [header : Headers, body : Bodies]

(***************************************************************************)
(* Credentials and ClientAuthorizationError.                               *)
(***************************************************************************)
CredentialsNone(client_id) ==
    [variant |-> "None", client_id |-> client_id]
ClientSecretBasic(client_id, client_secret) ==
    [variant |-> "ClientSecretBasic", client_id |-> client_id,
     client_secret |-> client_secret]
ClientSecretPost(client_id, client_secret) ==
    [variant |-> "ClientSecretPost", client_id |-> client_id,
     client_secret |-> client_secret]
ClientAssertionJwtBearer(client_id, jwt) ==
    [variant |-> "ClientAssertionJwtBearer", client_id |-> client_id,
     jwt |-> jwt]

InvalidHeader == [variant |-> "InvalidHeader"]
BadForm(err) == [variant |-> "BadForm", source |-> err]
ClientIdMismatch(credential, form) ==
    [variant |-> "ClientIdMismatch", credential |-> credential, form |-> form]
UnsupportedClientAssertion(client_assertion_type) ==
    [variant |-> "UnsupportedClientAssertion",
     client_assertion_type |-> client_assertion_type]
MissingCredentials == [variant |-> "MissingCredentials"]
InvalidRequest == [variant |-> "InvalidRequest"]
InvalidAssertion == [variant |-> "InvalidAssertion"]
Internal(e) == [variant |-> "Internal", source |-> e]

(***************************************************************************)
(* Jwt::try_from: the compact serialization parsed into header, payload    *)
(* and signature; no key is involved.                                      *)
(***************************************************************************)
JwtTryFrom(client_assertion) ==
    IF client_assertion.wellformed
    THEN Ok([payload |-> [sub |-> client_assertion.sub],
             signature |-> client_assertion.signer])
    ELSE Err("JwtDecodeError")

(***************************************************************************)
(* The resolution of from_request: the match over the five optional        *)
(* inputs.  Its two arms that have a body of their own come first.         *)
(***************************************************************************)

\* The first arm with the comparison of the two client_ids left out.
ClientSecretBasicArmUnchecked(client_id, client_secret, client_id_from_form) ==
    Ok(ClientSecretBasic(client_id, client_secret))

\* The first arm with the comparison of the two client_ids inverted.
ClientSecretBasicArmInverted(client_id, client_secret, client_id_from_form) ==
    IF IsSome(client_id_from_form) /\ client_id = client_id_from_form[1]
    THEN Err(ClientIdMismatch(client_id, client_id_from_form[1]))
    ELSE Ok(ClientSecretBasic(client_id, client_secret))

\* The first arm with the two fields of ClientIdMismatch exchanged.
ClientSecretBasicArmSwapped(client_id, client_secret, client_id_from_form) ==
    IF IsSome(client_id_from_form) /\ client_id # client_id_from_form[1]
    THEN Err(ClientIdMismatch(client_id_from_form[1], client_id))
    ELSE Ok(ClientSecretBasic(client_id, client_secret))

\* First arm: credentials in the Authorization header.
ClientSecretBasicArm(client_id, client_secret, client_id_from_form) ==
    IF IsSome(client_id_from_form) /\ client_id # client_id_from_form[1]
    THEN Err(ClientIdMismatch(client_id, client_id_from_form[1]))
    ELSE Ok(ClientSecretBasic(client_id, client_secret))

\* The second arm building the variant of the first.
ClientSecretPostArmAsBasic(client_id, client_secret) ==
    Ok(ClientSecretBasic(client_id, client_secret))

\* Second arm: both client_id and client_secret in the form.
ClientSecretPostArm(client_id, client_secret) ==
    Ok(ClientSecretPost(client_id, client_secret))

\* The third arm taking a lone client_id for no credentials at all.
NoneArmMissing(client_id) ==
    Err(MissingCredentials)

\* Third arm: only a client_id in the form.
NoneArm(client_id) ==
    Ok(CredentialsNone(client_id))

\* The fourth arm rejecting a JWT whose signature no key verifies.
ClientAssertionArmSigned(client_id_from_form, client_assertion) ==
    LET jwt == JwtTryFrom(client_assertion) IN
    IF ~jwt.ok THEN Err(InvalidAssertion)
    ELSE IF jwt.val.signature.key = 0 THEN Err(InvalidAssertion)
    ELSE LET sub == jwt.val.payload.sub IN
         IF IsSome(sub) /\ sub[1].ty = "String"
         THEN LET client_id == sub[1].v IN
              IF IsSome(client_id_from_form) /\ client_id # client_id_from_form[1]
              THEN Err(ClientIdMismatch(client_id, client_id_from_form[1]))
              ELSE Ok(ClientAssertionJwtBearer(client_id, jwt.val))
         ELSE Err(InvalidAssertion)

\* The fourth arm comparing the form's client_id before the sub claim is
\* known to be a string.
ClientAssertionArmIdFirst(client_id_from_form, client_assertion) ==
    LET jwt == JwtTryFrom(client_assertion) IN
    IF ~jwt.ok THEN Err(InvalidAssertion)
    ELSE LET sub == jwt.val.payload.sub IN
         IF IsSome(client_id_from_form) /\ IsSome(sub) /\ sub[1].v # client_id_from_form[1]
         THEN Err(ClientIdMismatch(sub[1].v, client_id_from_form[1]))
         ELSE IF IsSome(sub) /\ sub[1].ty = "String"
         THEN Ok(ClientAssertionJwtBearer(sub[1].v, jwt.val))
         ELSE Err(InvalidAssertion)

\* Fourth arm: a JWT bearer client_assertion.
ClientAssertionArm(client_id_from_form, client_assertion) ==
    LET jwt == JwtTryFrom(client_assertion) IN
    IF ~jwt.ok THEN Err(InvalidAssertion)
    ELSE LET sub == jwt.val.payload.sub IN
         IF IsSome(sub) /\ sub[1].ty = "String"
         THEN LET client_id == sub[1].v IN
              IF IsSome(client_id_from_form) /\ client_id # client_id_from_form[1]
              THEN Err(ClientIdMismatch(client_id, client_id_from_form[1]))
              ELSE Ok(ClientAssertionJwtBearer(client_id, jwt.val))
         ELSE Err(InvalidAssertion)

\* The fifth arm reporting the supported type in place of the given one.
UnsupportedArmConstant(client_assertion_type) ==
    Err(UnsupportedClientAssertion(JWT_BEARER_CLIENT_ASSERTION))

\* Fifth arm: another, unsupported client_assertion.
UnsupportedArm(client_assertion_type) ==
    Err(UnsupportedClientAssertion(client_assertion_type))

\* The match with a fifth arm that takes any form client_id, as the fourth does.
ResolveAnyClientId(credentials_from_header, client_id_from_form, client_secret_from_form, client_assertion_type, client_assertion) ==
    IF /\ IsSome(credentials_from_header)
       /\ client_secret_from_form = None
       /\ client_assertion_type = None
       /\ client_assertion = None
    THEN ClientSecretBasicArm(credentials_from_header[1][1],
                              credentials_from_header[1][2],
                              client_id_from_form)
    ELSE IF /\ credentials_from_header = None
            /\ IsSome(client_id_from_form)
            /\ IsSome(client_secret_from_form)
            /\ client_assertion_type = None
            /\ client_assertion = None
    THEN ClientSecretPostArm(client_id_from_form[1], client_secret_from_form[1])
    ELSE IF /\ credentials_from_header = None
            /\ IsSome(client_id_from_form)
            /\ client_secret_from_form = None
            /\ client_assertion_type = None
            /\ client_assertion = None
    THEN NoneArm(client_id_from_form[1])
    ELSE IF /\ credentials_from_header = None
            /\ client_secret_from_form = None
            /\ IsSome(client_assertion_type)
            /\ IsSome(client_assertion)
            /\ client_assertion_type[1] = JWT_BEARER_CLIENT_ASSERTION
    THEN ClientAssertionArm(client_id_from_form, client_assertion[1])
    ELSE IF /\ credentials_from_header = None
            /\ client_secret_from_form = None
            /\ IsSome(client_assertion_type)
            /\ IsSome(client_assertion)
    THEN UnsupportedArm(client_assertion_type[1])
    ELSE IF /\ credentials_from_header = None
            /\ client_id_from_form = None
            /\ client_secret_from_form = None
            /\ client_assertion_type = None
            /\ client_assertion = None
    THEN Err(MissingCredentials)
    ELSE Err(InvalidRequest)

\* The match without its arm for no credentials anywhere.
ResolveNoMissing(credentials_from_header, client_id_from_form, client_secret_from_form, client_assertion_type, client_assertion) ==
    IF /\ IsSome(credentials_from_header)
       /\ client_secret_from_form = None
       /\ client_assertion_type = None
       /\ client_assertion = None
    THEN ClientSecretBasicArm(credentials_from_header[1][1],
                              credentials_from_header[1][2],
                              client_id_from_form)
    ELSE IF /\ credentials_from_header = None
            /\ IsSome(client_id_from_form)
            /\ IsSome(client_secret_from_form)
            /\ client_assertion_type = None
            /\ client_assertion = None
    THEN ClientSecretPostArm(client_id_from_form[1], client_secret_from_form[1])
    ELSE IF /\ credentials_from_header = None
            /\ IsSome(client_id_from_form)
            /\ client_secret_from_form = None
            /\ client_assertion_type = None
            /\ client_assertion = None
    THEN NoneArm(client_id_from_form[1])
    ELSE IF /\ credentials_from_header = None
            /\ client_secret_from_form = None
            /\ IsSome(client_assertion_type)
            /\ IsSome(client_assertion)
            /\ client_assertion_type[1] = JWT_BEARER_CLIENT_ASSERTION
    THEN ClientAssertionArm(client_id_from_form, client_assertion[1])
    ELSE IF /\ credentials_from_header = None
            /\ client_id_from_form = None
            /\ client_secret_from_form = None
            /\ IsSome(client_assertion_type)
            /\ IsSome(client_assertion)
    THEN UnsupportedArm(client_assertion_type[1])
    ELSE Err(InvalidRequest)

\* The match with a first arm that does not look at the form's client_secret.
ResolveHeaderFirst(credentials_from_header, client_id_from_form, client_secret_from_form, client_assertion_type, client_assertion) ==
    IF /\ IsSome(credentials_from_header)
       /\ client_assertion_type = None
       /\ client_assertion = None
    THEN ClientSecretBasicArm(credentials_from_header[1][1],
                              credentials_from_header[1][2],
                              client_id_from_form)
    ELSE IF /\ credentials_from_header = None
            /\ IsSome(client_id_from_form)
            /\ IsSome(client_secret_from_form)
            /\ client_assertion_type = None
            /\ client_assertion = None
    THEN ClientSecretPostArm(client_id_from_form[1], client_secret_from_form[1])
    ELSE IF /\ credentials_from_header = None
            /\ IsSome(client_id_from_form)
            /\ client_secret_from_form = None
            /\ client_assertion_type = None
            /\ client_assertion = None
    THEN NoneArm(client_id_from_form[1])
    ELSE IF /\ credentials_from_header = None
            /\ client_secret_from_form = None
            /\ IsSome(client_assertion_type)
            /\ IsSome(client_assertion)
            /\ client_assertion_type[1] = JWT_BEARER_CLIENT_ASSERTION
    THEN ClientAssertionArm(client_id_from_form, client_assertion[1])
    ELSE IF /\ credentials_from_header = None
            /\ client_id_from_form = None
            /\ client_secret_from_form = None
            /\ IsSome(client_assertion_type)
            /\ IsSome(client_assertion)
    THEN UnsupportedArm(client_assertion_type[1])
    ELSE IF /\ credentials_from_header = None
            /\ client_id_from_form = None
            /\ client_secret_from_form = None
            /\ client_assertion_type = None
            /\ client_assertion = None
    THEN Err(MissingCredentials)
    ELSE Err(InvalidRequest)

\* The match of from_request over the five optional inputs, first arm first.
Resolve(credentials_from_header, client_id_from_form, client_secret_from_form, client_assertion_type, client_assertion) ==
    IF /\ IsSome(credentials_from_header)
       /\ client_secret_from_form = None
       /\ client_assertion_type = None
       /\ client_assertion = None
    THEN ClientSecretBasicArm(credentials_from_header[1][1],
                              credentials_from_header[1][2],
                              client_id_from_form)
    ELSE IF /\ credentials_from_header = None
            /\ IsSome(client_id_from_form)
            /\ IsSome(client_secret_from_form)
            /\ client_assertion_type = None
            /\ client_assertion = None
    THEN ClientSecretPostArm(client_id_from_form[1], client_secret_from_form[1])
    ELSE IF /\ credentials_from_header = None
            /\ IsSome(client_id_from_form)
            /\ client_secret_from_form = None
            /\ client_assertion_type = None
            /\ client_assertion = None
    THEN NoneArm(client_id_from_form[1])
    ELSE IF /\ credentials_from_header = None
            /\ client_secret_from_form = None
            /\ IsSome(client_assertion_type)
            /\ IsSome(client_assertion)
            /\ client_assertion_type[1] = JWT_BEARER_CLIENT_ASSERTION
    THEN ClientAssertionArm(client_id_from_form, client_assertion[1])
    ELSE IF /\ credentials_from_header = None
            /\ client_id_from_form = None
            /\ client_secret_from_form = None
            /\ IsSome(client_assertion_type)
            /\ IsSome(client_assertion)
    THEN UnsupportedArm(client_assertion_type[1])
    ELSE IF /\ credentials_from_header = None
            /\ client_id_from_form = None
            /\ client_secret_from_form = None
            /\ client_assertion_type = None
            /\ client_assertion = None
    THEN Err(MissingCredentials)
    ELSE Err(InvalidRequest)

(***************************************************************************)
(* Client records and what Credentials::verify works with.                 *)
(***************************************************************************)

\* OAuthClientAuthenticationMethod, the values verify's match names.
OAuthClientAuthenticationMethod ==
    {"none", "client_secret_post", "client_secret_basic",
     "private_key_jwt", "client_secret_jwt"}

\* A stored encrypted secret: one the encrypter decrypts to a secret, or one
\* it cannot decrypt.
Ciphertexts ==
    {[intact |-> TRUE, plain |-> s] : s \in ClientSecrets}
        \cup {[intact |-> FALSE, plain |-> 0]}

\* JwksOrJwksUri: an inline key set or a URI to fetch one from.
JwksOrJwksUri ==
    {[kind |-> "Jwks", keys |-> ks] : ks \in SUBSET Keys}
        \cup {[kind |-> "JwksUri"]}

\* The fields of Client that verify reads.
Clients ==
    [encrypted_client_secret : Option(Ciphertexts),
     jwks : Option(JwksOrJwksUri)]

\* What the GET of a jwks_uri can come to.
Responses ==
    {[kind |-> "SendError"], [kind |-> "ErrorStatus"], [kind |-> "BadJson"]}
        \cup {[kind |-> "KeySet", keys |-> ks] : ks \in SUBSET Keys}

\* CredentialsVerificationError.
DecryptionError == [variant |-> "DecryptionError"]
InvalidClientConfig == [variant |-> "InvalidClientConfig"]
ClientSecretMismatch == [variant |-> "ClientSecretMismatch"]
AuthenticationMethodMismatch == [variant |-> "AuthenticationMethodMismatch"]
InvalidAssertionSignature == [variant |-> "InvalidAssertionSignature"]
JwksFetchFailed(e) == [variant |-> "JwksFetchFailed", source |-> e]

\* CredentialsVerificationError::is_internal without JwksFetchFailed.
IsInternalNoFetch(self) ==
    self.variant \in {"DecryptionError", "InvalidClientConfig"}

\* CredentialsVerificationError::is_internal.
IsInternal(self) ==
    self.variant \in {"DecryptionError", "InvalidClientConfig", "JwksFetchFailed"}

\* Encrypter::decrypt_string.
DecryptString(encrypted) ==
    IF encrypted.intact THEN Ok(encrypted.plain) ELSE Err("DecryptError")

\* Jwt::verify_with_shared_secret and Jwt::verify_with_jwks.
VerifyWithSharedSecret(jwt, secret) ==
    jwt.signature.alg = "HS256" /\ jwt.signature.key = secret
VerifyWithJwks(jwt, jwks) ==
    jwt.signature.alg = "RS256" /\ jwt.signature.key \in jwks

\* fetch_jwks sending the GET a second time when the first one failed.
FetchJwksRetry(jwks, response) ==
    IF jwks.kind = "Jwks"
    THEN [result |-> Ok(jwks.keys), fetched |-> <<>>]
    ELSE IF response.kind = "KeySet"
    THEN [result |-> Ok(response.keys), fetched |-> <<response>>]
    ELSE [result |-> Err(response.kind), fetched |-> <<response, response>>]

\* fetch_jwks: the key set, or the error of the one GET it makes; `fetched`
\* lists the responses it consumed.
FetchJwks(jwks, response) ==
    IF jwks.kind = "Jwks"
    THEN [result |-> Ok(jwks.keys), fetched |-> <<>>]
    ELSE IF response.kind = "KeySet"
    THEN [result |-> Ok(response.keys), fetched |-> <<response>>]
    ELSE [result |-> Err(response.kind), fetched |-> <<response>>]

\* The outcome of a call of verify: its result, the GETs it made and the
\* ciphertexts it decrypted.
Verified(result, fetched, decrypted) ==
    [result |-> result, fetched |-> fetched, decrypted |-> decrypted]

\* Arms 2 and 3 of verify without the comparison of the two secrets.
VerifySecretUncompared(client_secret, client) ==
    IF client.encrypted_client_secret = None
    THEN Verified(Err(InvalidClientConfig), <<>>, <<>>)
    ELSE LET encrypted_client_secret == client.encrypted_client_secret[1]
             decrypted_client_secret == DecryptString(encrypted_client_secret)
         IN  IF ~decrypted_client_secret.ok
             THEN Verified(Err(DecryptionError), <<>>, <<encrypted_client_secret>>)
             ELSE Verified(Ok("unit"), <<>>, <<encrypted_client_secret>>)

\* Arms 2 and 3 of verify: a presented secret against the stored one.
VerifySecret(client_secret, client) ==
    IF client.encrypted_client_secret = None
    THEN Verified(Err(InvalidClientConfig), <<>>, <<>>)
    ELSE LET encrypted_client_secret == client.encrypted_client_secret[1]
             decrypted_client_secret == DecryptString(encrypted_client_secret)
         IN  IF ~decrypted_client_secret.ok
             THEN Verified(Err(DecryptionError), <<>>, <<encrypted_client_secret>>)
             ELSE IF client_secret # decrypted_client_secret.val
             THEN Verified(Err(ClientSecretMismatch), <<>>, <<encrypted_client_secret>>)
             ELSE Verified(Ok("unit"), <<>>, <<encrypted_client_secret>>)

\* Arm 4 of verify taking a client without JWKS for one with an empty key set.
VerifyPrivateKeyJwtNoKeys(jwt, client, response) ==
    LET jwks == IF client.jwks = None
                THEN [result |-> Ok({}), fetched |-> <<>>]
                ELSE FetchJwks(client.jwks[1], response)
    IN  IF ~jwks.result.ok
        THEN Verified(Err(JwksFetchFailed(jwks.result.err)), jwks.fetched, <<>>)
        ELSE IF ~VerifyWithJwks(jwt, jwks.result.val)
        THEN Verified(Err(InvalidAssertionSignature), jwks.fetched, <<>>)
        ELSE Verified(Ok("unit"), jwks.fetched, <<>>)

\* Arm 4 of verify: a JWT against the client's JWKS.
VerifyPrivateKeyJwt(jwt, client, response) ==
    IF client.jwks = None
    THEN Verified(Err(InvalidClientConfig), <<>>, <<>>)
    ELSE LET jwks == FetchJwks(client.jwks[1], response) IN
         IF ~jwks.result.ok
         THEN Verified(Err(JwksFetchFailed(jwks.result.err)), jwks.fetched, <<>>)
         ELSE IF ~VerifyWithJwks(jwt, jwks.result.val)
         THEN Verified(Err(InvalidAssertionSignature), jwks.fetched, <<>>)
         ELSE Verified(Ok("unit"), jwks.fetched, <<>>)

\* Arm 5 of verify comparing the signing secret's presence, not the signature.
VerifyClientSecretJwtUnsigned(jwt, client) ==
    IF client.encrypted_client_secret = None
    THEN Verified(Err(InvalidClientConfig), <<>>, <<>>)
    ELSE LET encrypted_client_secret == client.encrypted_client_secret[1]
             decrypted_client_secret == DecryptString(encrypted_client_secret)
         IN  IF ~decrypted_client_secret.ok
             THEN Verified(Err(DecryptionError), <<>>, <<encrypted_client_secret>>)
             ELSE IF jwt.signature.alg # "HS256"
             THEN Verified(Err(InvalidAssertionSignature), <<>>, <<encrypted_client_secret>>)
             ELSE Verified(Ok("unit"), <<>>, <<encrypted_client_secret>>)

\* Arm 5 of verify: a JWT against the stored secret as shared key.
VerifyClientSecretJwt(jwt, client) ==
    IF client.encrypted_client_secret = None
    THEN Verified(Err(InvalidClientConfig), <<>>, <<>>)
    ELSE LET encrypted_client_secret == client.encrypted_client_secret[1]
             decrypted_client_secret == DecryptString(encrypted_client_secret)
         IN  IF ~decrypted_client_secret.ok
             THEN Verified(Err(DecryptionError), <<>>, <<encrypted_client_secret>>)
             ELSE IF ~VerifyWithSharedSecret(jwt, decrypted_client_secret.val)
             THEN Verified(Err(InvalidAssertionSignature), <<>>, <<encrypted_client_secret>>)
             ELSE Verified(Ok("unit"), <<>>, <<encrypted_client_secret>>)

\* verify with one arm for a presented secret, whichever channel it came by.
CredentialsVerifyAnySecret(self, method, client, response) ==
    IF self.variant = "None" /\ method = "none"
    THEN Verified(Ok("unit"), <<>>, <<>>)
    ELSE IF /\ self.variant \in {"ClientSecretPost", "ClientSecretBasic"}
            /\ method \in {"client_secret_post", "client_secret_basic"}
    THEN VerifySecret(self.client_secret, client)
    ELSE IF self.variant = "ClientAssertionJwtBearer" /\ method = "private_key_jwt"
    THEN VerifyPrivateKeyJwt(self.jwt, client, response)
    ELSE IF self.variant = "ClientAssertionJwtBearer" /\ method = "client_secret_jwt"
    THEN VerifyClientSecretJwt(self.jwt, client)
    ELSE Verified(Err(AuthenticationMethodMismatch), <<>>, <<>>)

\* verify letting Credentials::None through only for a client that stores
\* neither a secret nor keys.
CredentialsVerifyPublicOnly(self, method, client, response) ==
    IF self.variant = "None" /\ method = "none"
    THEN IF client.encrypted_client_secret = None /\ client.jwks = None
         THEN Verified(Ok("unit"), <<>>, <<>>)
         ELSE Verified(Err(AuthenticationMethodMismatch), <<>>, <<>>)
    ELSE IF \/ self.variant = "ClientSecretPost" /\ method = "client_secret_post"
            \/ self.variant = "ClientSecretBasic" /\ method = "client_secret_basic"
    THEN VerifySecret(self.client_secret, client)
    ELSE IF self.variant = "ClientAssertionJwtBearer" /\ method = "private_key_jwt"
    THEN VerifyPrivateKeyJwt(self.jwt, client, response)
    ELSE IF self.variant = "ClientAssertionJwtBearer" /\ method = "client_secret_jwt"
    THEN VerifyClientSecretJwt(self.jwt, client)
    ELSE Verified(Err(AuthenticationMethodMismatch), <<>>, <<>>)

\* Credentials::verify: the match over (self, method).
CredentialsVerify(self, method, client, response) ==
    IF self.variant = "None" /\ method = "none"
    THEN Verified(Ok("unit"), <<>>, <<>>)
    ELSE IF \/ self.variant = "ClientSecretPost" /\ method = "client_secret_post"
            \/ self.variant = "ClientSecretBasic" /\ method = "client_secret_basic"
    THEN VerifySecret(self.client_secret, client)
    ELSE IF self.variant = "ClientAssertionJwtBearer" /\ method = "private_key_jwt"
    THEN VerifyPrivateKeyJwt(self.jwt, client, response)
    ELSE IF self.variant = "ClientAssertionJwtBearer" /\ method = "client_secret_jwt"
    THEN VerifyClientSecretJwt(self.jwt, client)
    ELSE Verified(Err(AuthenticationMethodMismatch), <<>>, <<>>)

(***************************************************************************)
(* ClientAuthorizationError turned into a response.                        *)
(***************************************************************************)
BAD_REQUEST == 400
INTERNAL_SERVER_ERROR == 500

\* The text a rejection of the body formats to.
DisplayRejection(e) ==
    IF e.kind = "BytesRejection" THEN <<e.cause>> ELSE <<"Failed to deserialize form">>

\* The text a ClientAuthorizationError formats to (its #[error] attribute).
DisplayError(self) ==
    IF self.variant = "InvalidHeader" THEN <<"Invalid Authorization header">>
    ELSE IF self.variant = "BadForm" THEN <<"Could not deserialize request body">>
    ELSE IF self.variant = "ClientIdMismatch"
    THEN <<"client_id in form", self.form, "does not match credential", self.credential>>
    ELSE IF self.variant = "UnsupportedClientAssertion"
    THEN <<"Unsupported client_assertion_type:", self.client_assertion_type>>
    ELSE IF self.variant = "MissingCredentials" THEN <<"No credentials were presented">>
    ELSE IF self.variant = "InvalidRequest" THEN <<"Invalid request">>
    ELSE IF self.variant = "InvalidAssertion" THEN <<"Invalid client_assertion">>
    ELSE DisplayRejection(self.source)

\* ClientError::new, ClientError::from and ClientError::with_description.
ClientErrorNew(code, description) ==
    [error |-> code, error_description |-> Some(description)]
ClientErrorFrom(code) ==
    [error |-> code, error_description |-> None]
WithDescription(client_error, description) ==
    [client_error EXCEPT !.error_description = Some(description)]

\* record_error!(error, pattern): the error captured to telemetry when it
\* matches the pattern, and the identifier of the event it then makes.
RecordError(error, matches, events) ==
    IF matches
    THEN [sentry_event_id |-> Some(Len(events) + 1), events |-> Append(events, error)]
    ELSE [sentry_event_id |-> None, events |-> events]

\* The match of into_response with ClientIdMismatch reported as invalid_request.
ErrorResponseOneCode(self, sentry_event_id) ==
    LET reply(status, body) ==
            [status |-> status, sentry_event_id |-> sentry_event_id, body |-> body]
    IN  IF self.variant = "InvalidHeader"
        THEN reply(BAD_REQUEST,
                   ClientErrorNew("invalid_request", <<"Invalid Authorization header">>))
        ELSE IF self.variant = "BadForm"
        THEN reply(BAD_REQUEST,
                   WithDescription(ClientErrorFrom("invalid_request"),
                                   DisplayRejection(self.source)))
        ELSE IF self.variant = "ClientIdMismatch"
        THEN reply(BAD_REQUEST,
                   WithDescription(ClientErrorFrom("invalid_request"), DisplayError(self)))
        ELSE IF self.variant = "UnsupportedClientAssertion"
        THEN reply(BAD_REQUEST,
                   WithDescription(ClientErrorFrom("invalid_request"), DisplayError(self)))
        ELSE IF self.variant = "MissingCredentials"
        THEN reply(BAD_REQUEST,
                   ClientErrorNew("invalid_request", <<"No credentials were presented">>))
        ELSE IF self.variant = "InvalidRequest"
        THEN reply(BAD_REQUEST, ClientErrorFrom("invalid_request"))
        ELSE IF self.variant = "InvalidAssertion"
        THEN reply(BAD_REQUEST,
                   ClientErrorNew("invalid_request", <<"Invalid client_assertion">>))
        ELSE reply(INTERNAL_SERVER_ERROR,
                   WithDescription(ClientErrorFrom("server_error"),
                                   DisplayRejection(self.source)))

\* The match of into_response: status, event identifier and JSON body.
ErrorResponse(self, sentry_event_id) ==
    LET reply(status, body) ==
            [status |-> status, sentry_event_id |-> sentry_event_id, body |-> body]
    IN  IF self.variant = "InvalidHeader"
        THEN reply(BAD_REQUEST,
                   ClientErrorNew("invalid_request", <<"Invalid Authorization header">>))
        ELSE IF self.variant = "BadForm"
        THEN reply(BAD_REQUEST,
                   WithDescription(ClientErrorFrom("invalid_request"),
                                   DisplayRejection(self.source)))
        ELSE IF self.variant = "ClientIdMismatch"
        THEN reply(BAD_REQUEST,
                   WithDescription(ClientErrorFrom("invalid_grant"), DisplayError(self)))
        ELSE IF self.variant = "UnsupportedClientAssertion"
        THEN reply(BAD_REQUEST,
                   WithDescription(ClientErrorFrom("invalid_request"), DisplayError(self)))
        ELSE IF self.variant = "MissingCredentials"
        THEN reply(BAD_REQUEST,
                   ClientErrorNew("invalid_request", <<"No credentials were presented">>))
        ELSE IF self.variant = "InvalidRequest"
        THEN reply(BAD_REQUEST, ClientErrorFrom("invalid_request"))
        ELSE IF self.variant = "InvalidAssertion"
        THEN reply(BAD_REQUEST,
                   ClientErrorNew("invalid_request", <<"Invalid client_assertion">>))
        ELSE reply(INTERNAL_SERVER_ERROR,
                   WithDescription(ClientErrorFrom("server_error"),
                                   DisplayRejection(self.source)))

(***************************************************************************)
(* State: one request on its way through from_request and verify.          *)
(***************************************************************************)
VARIABLES
    pc,                       \* where the request is
    request,                  \* the header and the body it came with
    credentials_from_header,  \* Option<(username, password)>
    form_values,              \* the four form fields and the residual form
    body_read,                \* whether the body has been consumed
    outcome,                  \* None, or the Result of from_request
    verified,                 \* None, or the outcome of verify
    internal,                 \* None, or what is_internal said of verify's error
    http_response,            \* None, or the response made of from_request's error
    telemetry,                \* the errors captured to error telemetry
    position,                 \* where the call of get_requester is
    args,                     \* the arguments get_requester was called with
    repo,                     \* the repository: its rows, the calls made, its state
    loaded,                   \* the token, session and user loaded so far
    activity_tracker,         \* the session activity recorded
    requester                 \* None, or the Result of get_requester

\* The state of the credential extractor and that of get_requester.
client_authorization_vars == <<pc, request, credentials_from_header, form_values, body_read, outcome, verified, internal, http_response, telemetry>>
get_requester_vars == <<position, args, repo, loaded, activity_tracker, requester>>

vars == <<client_authorization_vars, get_requester_vars>>

\* get_requester is not being called.
NoRequesterCall ==
    /\ position = "idle"
    /\ args = None
    /\ repo = None
    /\ loaded = None
    /\ activity_tracker = <<>>
    /\ requester = None

NoFormValues ==
    [client_id |-> None, client_secret |-> None, client_assertion_type |-> None,
     client_assertion |-> None, form |-> None]

Init ==
    /\ pc = "take_header"
    /\ request \in Requests
    /\ credentials_from_header = None
    /\ form_values = NoFormValues
    /\ body_read = FALSE
    /\ outcome = None
    /\ verified = None
    /\ internal = None
    /\ http_response = None
    /\ telemetry = <<>>
    /\ NoRequesterCall

\* TakeHeader with a header that does not parse taken for a missing one.
TakeHeaderLenient ==
    /\ pc = "take_header"
    /\ \/ /\ request.header.kind = "Basic"
          /\ credentials_from_header' =
                 Some(<<request.header.username, request.header.password>>)
       \/ /\ request.header.kind # "Basic"
          /\ credentials_from_header' = None
    /\ pc' = "take_form"
    /\ UNCHANGED <<request, form_values, body_read, outcome, verified, internal, http_response, telemetry, get_requester_vars>>

\* from_request, up to the Authorization header taken.
TakeHeader ==
    /\ pc = "take_header"
    /\ \/ /\ request.header.kind = "Basic"
          /\ credentials_from_header' =
                 Some(<<request.header.username, request.header.password>>)
          /\ pc' = "take_form"
          /\ UNCHANGED outcome
       \/ /\ request.header.kind = "Missing"
          /\ credentials_from_header' = None
          /\ pc' = "take_form"
          /\ UNCHANGED outcome
       \/ /\ request.header.kind \notin {"Basic", "Missing"}
          /\ outcome' = Some(Err(InvalidHeader))
          /\ pc' = "rejected"
          /\ UNCHANGED credentials_from_header
    /\ UNCHANGED <<request, form_values, body_read, verified, internal, http_response, telemetry, get_requester_vars>>

\* TakeForm with a body that is no form taken for a form that does not deserialize.
TakeFormStrict ==
    /\ pc = "take_form"
    /\ body_read' = TRUE
    /\ \/ /\ request.body.kind = "Form"
          /\ form_values' =
                 [client_id |-> request.body.form.client_id,
                  client_secret |-> request.body.form.client_secret,
                  client_assertion_type |-> request.body.form.client_assertion_type,
                  client_assertion |-> request.body.form.client_assertion,
                  form |-> Some(request.body.form.inner)]
          /\ pc' = "resolve"
          /\ UNCHANGED outcome
       \/ /\ request.body.kind \in {"InvalidFormContentType", "FailedToDeserializeForm"}
          /\ outcome' = Some(Err(BadForm(request.body)))
          /\ pc' = "rejected"
          /\ UNCHANGED form_values
       \/ /\ request.body.kind \notin
                 {"Form", "InvalidFormContentType", "FailedToDeserializeForm"}
          /\ outcome' = Some(Err(Internal(request.body)))
          /\ pc' = "rejected"
          /\ UNCHANGED form_values
    /\ UNCHANGED <<request, credentials_from_header, verified, internal, http_response, telemetry, get_requester_vars>>

\* from_request, the form value taken from the body.
TakeForm ==
    /\ pc = "take_form"
    /\ body_read' = TRUE
    /\ \/ /\ request.body.kind = "Form"
          /\ form_values' =
                 [client_id |-> request.body.form.client_id,
                  client_secret |-> request.body.form.client_secret,
                  client_assertion_type |-> request.body.form.client_assertion_type,
                  client_assertion |-> request.body.form.client_assertion,
                  form |-> Some(request.body.form.inner)]
          /\ pc' = "resolve"
          /\ UNCHANGED outcome
       \/ /\ request.body.kind = "InvalidFormContentType"
          /\ form_values' = NoFormValues
          /\ pc' = "resolve"
          /\ UNCHANGED outcome
       \/ /\ request.body.kind = "FailedToDeserializeForm"
          /\ outcome' = Some(Err(BadForm(request.body)))
          /\ pc' = "rejected"
          /\ UNCHANGED form_values
       \/ /\ request.body.kind \notin
                 {"Form", "InvalidFormContentType", "FailedToDeserializeForm"}
          /\ outcome' = Some(Err(Internal(request.body)))
          /\ pc' = "rejected"
          /\ UNCHANGED form_values
    /\ UNCHANGED <<request, credentials_from_header, verified, internal, http_response, telemetry, get_requester_vars>>

\* from_request, the auth method figured out and the result returned.
ResolveCredentials ==
    /\ pc = "resolve"
    /\ LET credentials ==
               Resolve(credentials_from_header, form_values.client_id,
                       form_values.client_secret,
                       form_values.client_assertion_type,
                       form_values.client_assertion)
       IN  \/ /\ credentials.ok
              /\ outcome' = Some(Ok([credentials |-> credentials.val,
                                     form |-> form_values.form]))
              /\ pc' = "extracted"
           \/ /\ ~credentials.ok
              /\ outcome' = Some(Err(credentials.err))
              /\ pc' = "rejected"
    /\ UNCHANGED <<request, credentials_from_header, form_values, body_read, verified, internal, http_response, telemetry, get_requester_vars>>

\* Credentials::verify, called with the extracted credentials, a declared
\* method and a client record; `response` is what a GET of the jwks_uri
\* would come to.
Verify ==
    /\ pc = "extracted"
    /\ \E method \in OAuthClientAuthenticationMethod, client \in Clients,
          response \in Responses :
           LET v == CredentialsVerify(outcome[1].val.credentials, method, client, response)
           IN  \* a response that is never fetched is no part of the state
               /\ v.fetched = <<>> => response = [kind |-> "SendError"]
               /\ verified' = Some([method |-> method, client |-> client,
                                    result |-> v.result, fetched |-> v.fetched,
                                    decrypted |-> v.decrypted])
    /\ pc' = "verified"
    /\ UNCHANGED <<request, credentials_from_header, form_values, body_read, outcome, internal, http_response, telemetry, get_requester_vars>>

\* is_internal, asked of the error verify returned.
Classify ==
    /\ pc = "verified"
    /\ ~verified[1].result.ok
    /\ internal' = Some(IsInternal(verified[1].result.err))
    /\ pc' = "classified"
    /\ UNCHANGED <<request, credentials_from_header, form_values, body_read, outcome, verified, http_response, telemetry, get_requester_vars>>

\* into_response with every error recorded, whatever its variant.
IntoResponseRecordAll ==
    /\ pc = "rejected"
    /\ LET self == outcome[1].err
           recorded == RecordError(self, TRUE, telemetry)
       IN  /\ http_response' = Some(ErrorResponse(self, recorded.sentry_event_id))
           /\ telemetry' = recorded.events
    /\ pc' = "responded"
    /\ UNCHANGED <<request, credentials_from_header, form_values, body_read, outcome, verified, internal, get_requester_vars>>

\* ClientAuthorizationError::into_response, of the error from_request returned.
IntoResponse ==
    /\ pc = "rejected"
    /\ LET self == outcome[1].err
           recorded == RecordError(self, self.variant = "Internal", telemetry)
       IN  /\ http_response' = Some(ErrorResponse(self, recorded.sentry_event_id))
           /\ telemetry' = recorded.events
    /\ pc' = "responded"
    /\ UNCHANGED <<request, credentials_from_header, form_values, body_read, outcome, verified, internal, get_requester_vars>>

Next ==
    \/ TakeHeader
    \/ TakeForm
    \/ ResolveCredentials
    \/ Verify
    \/ Classify
    \/ IntoResponse

Spec == Init /\ [][Next]_vars

(***************************************************************************)
(* get_requester of the GraphQL handler: who makes the request, from a     *)
(* bearer token or else from the cookie session.                           *)
(***************************************************************************)
MaxTime == 2

\* Instants of the clock.
Times == 0 .. MaxTime

\* The scope get_requester asks of an OAuth 2.0 session.
GRAPHQL_SCOPE == "urn:mas:graphql:*"

\* The scopes a session can hold.
Scopes == SUBSET {GRAPHQL_SCOPE, "openid"}

\* The rows of the repository that get_requester reads: an access token (the
\* session it belongs to is the one row of oauth2 sessions), an OAuth 2.0
\* session, a user and a browser session.
AccessTokens == [expires_at : Option(Times), revoked : BOOLEAN]
Sessions == [user_id : Option({"user"}), finished : BOOLEAN, scope : Scopes]
Users == [locked : BOOLEAN]
BrowserSessions == {[user |-> "user"]}

\* What each lookup of the repository finds under the key it is asked for.
Rows ==
    [access_token : Option(AccessTokens),
     session : Option(Sessions),
     user : Option(Users),
     active_session : Option(BrowserSessions)]

\* The arguments of get_requester that decide its result.
Arguments ==
    [undocumented_oauth2_access : BOOLEAN,
     now : Times,
     ip_address : Option({"ip"}),
     user_agent : Option({"agent"}),
     token : Option({"token"})]

\* AccessToken::is_valid, Session::is_valid and User::is_valid.
AccessTokenIsValid(self, now) ==
    /\ ~self.revoked
    /\ self.expires_at = None \/ self.expires_at[1] > now
SessionIsValid(self) == ~self.finished
UserIsValid(self) == ~self.locked

\* RouteError.
RouteErrorInternal(e) == [variant |-> "Internal", source |-> e]
LoadFailed == [variant |-> "LoadFailed"]
InvalidToken == [variant |-> "InvalidToken"]
MissingScope == [variant |-> "MissingScope"]

\* RequestingEntity, and its conversion from the cookie session.
Anonymous == [variant |-> "Anonymous"]
BrowserSession(session) == [variant |-> "BrowserSession", session |-> session]
OAuth2Session(session, user) ==
    [variant |-> "OAuth2Session", session |-> session, user |-> user]
RequestingEntityFrom(maybe_session) ==
    IF IsSome(maybe_session) THEN BrowserSession(maybe_session[1]) ELSE Anonymous

\* One call of the repository: it fails, or it gives what it found.
RepositoryCall(call, found) ==
    {[call |-> call, result |-> Err("RepositoryError")],
     [call |-> call, result |-> Ok(found)]}

\* The repository after one more call; after it went out of scope on an
\* early return.
Called(r, c) == [r EXCEPT !.calls = Append(@, c)]
Dropped(r) == [r EXCEPT !.state = "dropped"]

\* Nothing loaded yet.
NothingLoaded == [token |-> None, session |-> None, user |-> None, entity |-> None]

InitRequester ==
    /\ pc = "idle"
    /\ request = None
    /\ credentials_from_header = None
    /\ form_values = NoFormValues
    /\ body_read = FALSE
    /\ outcome = None
    /\ verified = None
    /\ internal = None
    /\ http_response = None
    /\ telemetry = <<>>
    /\ position = "start"
    /\ args \in Arguments
    /\ \E rows \in Rows : repo = [rows |-> rows, calls |-> <<>>, state |-> "open"]
    /\ loaded = NothingLoaded
    /\ activity_tracker = <<>>
    /\ requester = None

\* get_requester returning an error from where it is.
Bail(r, error) ==
    /\ requester' = Some(Err(error))
    /\ repo' = Dropped(r)
    /\ position' = "returned"

\* find_by_token without the listener's undocumented_oauth2_access asked.
FindByTokenAnyListener ==
    /\ position = "start"
    /\ IsSome(args.token)
    /\ \E c \in RepositoryCall("oauth2_access_token.find_by_token", repo.rows.access_token) :
           IF ~c.result.ok
           THEN Bail(Called(repo, c), RouteErrorInternal(c.result.err)) /\ UNCHANGED loaded
           ELSE IF c.result.val = None
           THEN Bail(Called(repo, c), InvalidToken) /\ UNCHANGED loaded
           ELSE /\ loaded' = [loaded EXCEPT !.token = c.result.val]
                /\ repo' = Called(repo, c)
                /\ position' = "lookup_session"
                /\ UNCHANGED requester
    /\ UNCHANGED <<args, activity_tracker, client_authorization_vars>>

\* get_requester with a token: the listener's switch, then the token looked up.
FindByToken ==
    /\ position = "start"
    /\ IsSome(args.token)
    /\ IF ~args.undocumented_oauth2_access
       THEN Bail(repo, InvalidToken) /\ UNCHANGED loaded
       ELSE \E c \in RepositoryCall("oauth2_access_token.find_by_token", repo.rows.access_token) :
                IF ~c.result.ok
                THEN Bail(Called(repo, c), RouteErrorInternal(c.result.err)) /\ UNCHANGED loaded
                ELSE IF c.result.val = None
                THEN Bail(Called(repo, c), InvalidToken) /\ UNCHANGED loaded
                ELSE /\ loaded' = [loaded EXCEPT !.token = c.result.val]
                     /\ repo' = Called(repo, c)
                     /\ position' = "lookup_session"
                     /\ UNCHANGED requester
    /\ UNCHANGED <<args, activity_tracker, client_authorization_vars>>

\* The session of the token looked up.
LookupSession ==
    /\ position = "lookup_session"
    /\ \E c \in RepositoryCall("oauth2_session.lookup", repo.rows.session) :
           IF ~c.result.ok
           THEN Bail(Called(repo, c), RouteErrorInternal(c.result.err)) /\ UNCHANGED loaded
           ELSE IF c.result.val = None
           THEN Bail(Called(repo, c), LoadFailed) /\ UNCHANGED loaded
           ELSE /\ loaded' = [loaded EXCEPT !.session = c.result.val]
                /\ repo' = Called(repo, c)
                /\ position' = "record_oauth2_session"
                /\ UNCHANGED requester
    /\ UNCHANGED <<args, activity_tracker, client_authorization_vars>>

\* record_oauth2_session left out.
SkipRecordOAuth2Session ==
    /\ position = "record_oauth2_session"
    /\ position' = "lookup_user"
    /\ UNCHANGED <<args, repo, loaded, activity_tracker, requester, client_authorization_vars>>

\* activity_tracker.record_oauth2_session(clock, &session).
RecordOAuth2Session ==
    /\ position = "record_oauth2_session"
    /\ activity_tracker' =
           Append(activity_tracker,
                  [kind |-> "oauth2_session", session |-> loaded.session[1],
                   at |-> args.now])
    /\ position' = "lookup_user"
    /\ UNCHANGED <<args, repo, loaded, requester, client_authorization_vars>>

\* The user of the session loaded, if there is one.
LookupUser ==
    /\ position = "lookup_user"
    /\ IF IsSome(loaded.session[1].user_id)
       THEN \E c \in RepositoryCall("user.lookup", repo.rows.user) :
                IF ~c.result.ok
                THEN Bail(Called(repo, c), RouteErrorInternal(c.result.err)) /\ UNCHANGED loaded
                ELSE IF c.result.val = None
                THEN Bail(Called(repo, c), LoadFailed) /\ UNCHANGED loaded
                ELSE /\ loaded' = [loaded EXCEPT !.user = c.result.val]
                     /\ repo' = Called(repo, c)
                     /\ position' = "check"
                     /\ UNCHANGED requester
       ELSE /\ position' = "check"
            /\ UNCHANGED <<loaded, repo, requester>>
    /\ UNCHANGED <<args, activity_tracker, client_authorization_vars>>

\* The checks with the scope asked before the validity.
CheckValidityScopeFirst ==
    /\ position = "check"
    /\ LET token == loaded.token[1]
           session == loaded.session[1]
           user == loaded.user
           user_valid == user = None \/ UserIsValid(user[1])
       IN  IF GRAPHQL_SCOPE \notin session.scope
           THEN Bail(repo, MissingScope) /\ UNCHANGED loaded
           ELSE IF \/ ~AccessTokenIsValid(token, args.now)
                   \/ ~SessionIsValid(session)
                   \/ ~user_valid
           THEN Bail(repo, InvalidToken) /\ UNCHANGED loaded
           ELSE /\ loaded' = [loaded EXCEPT !.entity = Some(OAuth2Session(session, user))]
                /\ position' = "cancel"
                /\ UNCHANGED <<repo, requester>>
    /\ UNCHANGED <<args, activity_tracker, client_authorization_vars>>

\* The token, the session and the user are valid, and the scope is there.
CheckValidity ==
    /\ position = "check"
    /\ LET token == loaded.token[1]
           session == loaded.session[1]
           user == loaded.user
           user_valid == user = None \/ UserIsValid(user[1])
       IN  IF \/ ~AccessTokenIsValid(token, args.now)
              \/ ~SessionIsValid(session)
              \/ ~user_valid
           THEN Bail(repo, InvalidToken) /\ UNCHANGED loaded
           ELSE IF GRAPHQL_SCOPE \notin session.scope
           THEN Bail(repo, MissingScope) /\ UNCHANGED loaded
           ELSE /\ loaded' = [loaded EXCEPT !.entity = Some(OAuth2Session(session, user))]
                /\ position' = "cancel"
                /\ UNCHANGED <<repo, requester>>
    /\ UNCHANGED <<args, activity_tracker, client_authorization_vars>>

\* get_requester without a token: the active session of the cookie.
LoadActiveSession ==
    /\ position = "start"
    /\ args.token = None
    /\ \E c \in RepositoryCall("session_info.load_active_session", repo.rows.active_session) :
           IF ~c.result.ok
           THEN Bail(Called(repo, c), RouteErrorInternal(c.result.err)) /\ UNCHANGED loaded
           ELSE /\ loaded' = [loaded EXCEPT !.session = c.result.val]
                /\ repo' = Called(repo, c)
                /\ position' = "record_browser_session"
                /\ UNCHANGED requester
    /\ UNCHANGED <<args, activity_tracker, client_authorization_vars>>

\* activity_tracker.record_browser_session(clock, session), if there is one.
RecordBrowserSession ==
    /\ position = "record_browser_session"
    /\ LET maybe_session == loaded.session IN
       /\ activity_tracker' =
              IF IsSome(maybe_session)
              THEN Append(activity_tracker,
                          [kind |-> "browser_session", session |-> maybe_session[1],
                           at |-> args.now])
              ELSE activity_tracker
       /\ loaded' = [loaded EXCEPT !.entity = Some(RequestingEntityFrom(maybe_session))]
    /\ position' = "cancel"
    /\ UNCHANGED <<args, repo, requester, client_authorization_vars>>

\* The Requester made, the repository cancelled and the result returned.
Cancel ==
    /\ position = "cancel"
    /\ \E c \in RepositoryCall("cancel", "unit") :
           IF ~c.result.ok
           THEN Bail(Called(repo, c), RouteErrorInternal(c.result.err))
           ELSE /\ requester' = Some(Ok([entity |-> loaded.entity[1],
                                          ip_address |-> args.ip_address,
                                          user_agent |-> args.user_agent]))
                /\ repo' = [Called(repo, c) EXCEPT !.state = "cancelled"]
                /\ position' = "returned"
    /\ UNCHANGED <<args, loaded, activity_tracker, client_authorization_vars>>

NextRequester ==
    \/ FindByToken
    \/ LookupSession
    \/ RecordOAuth2Session
    \/ LookupUser
    \/ CheckValidity
    \/ LoadActiveSession
    \/ RecordBrowserSession
    \/ Cancel

SpecRequester == InitRequester /\ [][NextRequester]_vars

(***************************************************************************)
(* What a request presents, read off the request itself, and the states    *)
(* the properties below speak of.                                          *)
(***************************************************************************)
HasForm == request.body.kind = "Form"
HeaderPresented ==
    IF request.header.kind = "Basic"
    THEN Some(<<request.header.username, request.header.password>>)
    ELSE None
ClientIdPresented == IF HasForm THEN request.body.form.client_id ELSE None
ClientSecretPresented == IF HasForm THEN request.body.form.client_secret ELSE None
AssertionTypePresented == IF HasForm THEN request.body.form.client_assertion_type ELSE None
AssertionPresented == IF HasForm THEN request.body.form.client_assertion ELSE None

\* The client_id in the sub claim of the presented assertion, when it is a
\* JWT with a string sub claim.
SubPresented ==
    IF /\ IsSome(AssertionPresented)
       /\ AssertionPresented[1].wellformed
       /\ IsSome(AssertionPresented[1].sub)
       /\ AssertionPresented[1].sub[1].ty = "String"
    THEN Some(AssertionPresented[1].sub[1].v)
    ELSE None

\* from_request has returned.
Returned == outcome # None
\* from_request has returned, and from its resolution: the header was
\* missing or well-formed, the body a form or not form-like.
Resolved ==
    /\ Returned
    /\ request.header.kind \in {"Basic", "Missing"}
    /\ request.body.kind \in {"Form", "InvalidFormContentType"}
Succeeded == Returned /\ outcome[1].ok
Failed == Returned /\ ~outcome[1].ok
Credentials == outcome[1].val.credentials

(***************************************************************************)
(* C1: verify returns Ok only for the pairs (None, none),                  *)
(* (ClientSecretBasic, client_secret_basic), (ClientSecretPost,            *)
(* client_secret_post), (ClientAssertionJwtBearer, private_key_jwt) and    *)
(* (ClientAssertionJwtBearer, client_secret_jwt) of credential shape and   *)
(* declared method; for every other pair it returns                        *)
(* AuthenticationMethodMismatch, whatever the client record holds.         *)
(***************************************************************************)
MatchingPairs ==
    {<<"None", "none">>,
     <<"ClientSecretBasic", "client_secret_basic">>,
     <<"ClientSecretPost", "client_secret_post">>,
     <<"ClientAssertionJwtBearer", "private_key_jwt">>,
     <<"ClientAssertionJwtBearer", "client_secret_jwt">>}

C1_MethodMismatch ==
    pc = "verified" =>
        LET pair == <<Credentials.variant, verified[1].method>> IN
        /\ verified[1].result.ok => pair \in MatchingPairs
        /\ pair \notin MatchingPairs =>
               /\ verified[1].result = Err(AuthenticationMethodMismatch)
               /\ verified[1].fetched = <<>>
               /\ verified[1].decrypted = <<>>
        /\ pair \in MatchingPairs =>
               verified[1].result # Err(AuthenticationMethodMismatch)

\* A bare secret equal to the stored one, against a private_key_jwt client.
C1_Witness ==
    /\ pc = "verified"
    /\ Credentials.variant = "ClientSecretBasic"
    /\ verified[1].method = "private_key_jwt"
    /\ verified[1].client.encrypted_client_secret =
           Some([intact |-> TRUE, plain |-> Credentials.client_secret])
    /\ verified[1].result = Err(AuthenticationMethodMismatch)

(***************************************************************************)
(* C2: when from_request succeeds, every client_id the request carried,    *)
(* in the Basic header, in the form or in the sub claim of the assertion,  *)
(* is the client_id of the resulting Credentials.                          *)
(***************************************************************************)
C2_IdentityConsistency ==
    Succeeded =>
        /\ IsSome(HeaderPresented) => HeaderPresented[1][1] = Credentials.client_id
        /\ IsSome(ClientIdPresented) => ClientIdPresented[1] = Credentials.client_id
        /\ IsSome(SubPresented) => SubPresented[1] = Credentials.client_id

\* A success of a request that named a client_id in the header and in the form.
C2_Witness ==
    /\ Succeeded
    /\ IsSome(HeaderPresented)
    /\ IsSome(ClientIdPresented)

(***************************************************************************)
(* C3: resolution yields, for every combination of the five inputs, one    *)
(* Credentials variant or one error, and it is the outcome of the decision *)
(* table of section 4.2 read first match first, every combination no row   *)
(* names giving InvalidRequest.                                            *)
(***************************************************************************)
\* The decision table.  The fifth row stands for the assertion procedure
\* its result cell describes, which itself decides on the form client_id.
DecisionTable(h, cid, cs, cat, ca) ==
    LET absent(x) == x = None
        present(x) == x # None
        row1 == present(h) /\ (absent(cid) \/ cid = Some(h[1][1]))
                    /\ absent(cs) /\ absent(cat) /\ absent(ca)
        row2 == present(h) /\ present(cid) /\ cid # Some(h[1][1])
                    /\ absent(cs) /\ absent(cat) /\ absent(ca)
        row3 == absent(h) /\ present(cid) /\ present(cs) /\ absent(cat) /\ absent(ca)
        row4 == absent(h) /\ present(cid) /\ absent(cs) /\ absent(cat) /\ absent(ca)
        row5 == absent(h) /\ absent(cs) /\ cat = Some(JWT_BEARER_CLIENT_ASSERTION)
                    /\ present(ca)
        row6 == absent(h) /\ absent(cid) /\ absent(cs) /\ present(cat)
                    /\ cat # Some(JWT_BEARER_CLIENT_ASSERTION) /\ present(ca)
        row7 == absent(h) /\ absent(cid) /\ absent(cs) /\ absent(cat) /\ absent(ca)
        sub == IF ca[1].wellformed THEN ca[1].sub ELSE None
    IN  IF row1 THEN Ok(ClientSecretBasic(h[1][1], h[1][2]))
        ELSE IF row2 THEN Err(ClientIdMismatch(h[1][1], cid[1]))
        ELSE IF row3 THEN Ok(ClientSecretPost(cid[1], cs[1]))
        ELSE IF row4 THEN Ok(CredentialsNone(cid[1]))
        ELSE IF row5 THEN
            IF ~ca[1].wellformed THEN Err(InvalidAssertion)
            ELSE IF absent(sub) \/ sub[1].ty # "String" THEN Err(InvalidAssertion)
            ELSE IF present(cid) /\ cid[1] # sub[1].v
            THEN Err(ClientIdMismatch(sub[1].v, cid[1]))
            ELSE Ok(ClientAssertionJwtBearer(
                        sub[1].v,
                        [payload |-> [sub |-> sub], signature |-> ca[1].signer]))
        ELSE IF row6 THEN Err(UnsupportedClientAssertion(cat[1]))
        ELSE IF row7 THEN Err(MissingCredentials)
        ELSE Err(InvalidRequest)

CredentialVariants ==
    {"None", "ClientSecretBasic", "ClientSecretPost", "ClientAssertionJwtBearer"}
ResolutionErrors ==
    {"ClientIdMismatch", "UnsupportedClientAssertion", "MissingCredentials",
     "InvalidRequest", "InvalidAssertion"}

C3_DecisionTable ==
    Resolved =>
        LET row == DecisionTable(HeaderPresented, ClientIdPresented,
                                 ClientSecretPresented, AssertionTypePresented,
                                 AssertionPresented)
        IN  /\ outcome[1].ok = row.ok
            /\ outcome[1].ok =>
                   /\ Credentials = row.val
                   /\ Credentials.variant \in CredentialVariants
            /\ ~outcome[1].ok =>
                   /\ outcome[1].err = row.err
                   /\ outcome[1].err.variant \in ResolutionErrors

\* A combination no row names: an unsupported assertion type together with
\* a form client_id.
C3_Witness ==
    /\ Resolved
    /\ HeaderPresented = None
    /\ IsSome(ClientIdPresented)
    /\ ClientSecretPresented = None
    /\ IsSome(AssertionTypePresented)
    /\ AssertionTypePresented[1] # JWT_BEARER_CLIENT_ASSERTION
    /\ IsSome(AssertionPresented)
    /\ outcome[1] = Err(InvalidRequest)

(***************************************************************************)
(* C4: a request with a well-formed Basic header, no form client_secret,   *)
(* no assertion fields, and a form client_id absent or equal to the        *)
(* header's resolves to ClientSecretBasic with the header's client_id and  *)
(* client_secret, the same whether the form client_id is absent or equal.  *)
(***************************************************************************)
C4_ClientSecretBasic ==
    ( /\ Resolved
      /\ IsSome(HeaderPresented)
      /\ ClientSecretPresented = None
      /\ AssertionTypePresented = None
      /\ AssertionPresented = None
      /\ ClientIdPresented \in {None, Some(request.header.username)} )
    => /\ Succeeded
       /\ Credentials =
              ClientSecretBasic(request.header.username, request.header.password)

\* The header's client_id repeated in the form.
C4_Witness ==
    /\ Succeeded
    /\ IsSome(HeaderPresented)
    /\ ClientIdPresented = Some(request.header.username)
    /\ Credentials.variant = "ClientSecretBasic"

(***************************************************************************)
(* C5: a request with a well-formed Basic header, no form client_secret,   *)
(* no assertion fields, and a form client_id that differs from the         *)
(* header's fails with ClientIdMismatch, whose credential is the header's  *)
(* client_id and whose form is the form's; no Credentials are produced.    *)
(***************************************************************************)
C5_ClientIdMismatch ==
    ( /\ Resolved
      /\ IsSome(HeaderPresented)
      /\ ClientSecretPresented = None
      /\ AssertionTypePresented = None
      /\ AssertionPresented = None
      /\ IsSome(ClientIdPresented)
      /\ ClientIdPresented[1] # request.header.username )
    => outcome[1] =
           Err(ClientIdMismatch(request.header.username, ClientIdPresented[1]))

C5_Witness ==
    /\ Failed
    /\ IsSome(HeaderPresented)
    /\ IsSome(ClientIdPresented)
    /\ outcome[1].err.variant = "ClientIdMismatch"
    /\ outcome[1].err.credential = request.header.username
    /\ outcome[1].err.form # outcome[1].err.credential

(***************************************************************************)
(* C6: a credential header that is present but does not decode as Basic    *)
(* credentials makes from_request fail with InvalidHeader for every body,  *)
(* and before the body is read; a missing header is never InvalidHeader.   *)
(***************************************************************************)
C6_InvalidHeader ==
    /\ request.header.kind = "Error" =>
           /\ ~body_read
           /\ pc \in {"take_header", "rejected", "responded"}
           /\ Returned => outcome[1] = Err(InvalidHeader)
    /\ (Returned /\ outcome[1] = Err(InvalidHeader)) => request.header.kind = "Error"

\* InvalidHeader for a body that would not have deserialized.
C6_Witness ==
    /\ request.header.kind = "Error"
    /\ request.body.kind = "FailedToDeserializeForm"
    /\ pc = "rejected"
    /\ outcome[1] = Err(InvalidHeader)

(***************************************************************************)
(* C7: a request with no credential header whose form has client_id and    *)
(* client_secret and neither assertion field resolves to ClientSecretPost  *)
(* with the form's client_id and client_secret, the residual form beside.  *)
(***************************************************************************)
C7_ClientSecretPost ==
    ( /\ Resolved
      /\ HeaderPresented = None
      /\ IsSome(ClientIdPresented)
      /\ IsSome(ClientSecretPresented)
      /\ AssertionTypePresented = None
      /\ AssertionPresented = None )
    => outcome[1] =
           Ok([credentials |->
                   ClientSecretPost(ClientIdPresented[1], ClientSecretPresented[1]),
               form |-> Some(request.body.form.inner)])

C7_Witness ==
    /\ Succeeded
    /\ HeaderPresented = None
    /\ Credentials.variant = "ClientSecretPost"
    /\ outcome[1].val.form = Some(request.body.form.inner)

(***************************************************************************)
(* C8: a request with only a form client_id, no credential header, no form *)
(* client_secret and no assertion fields, resolves to Credentials::None    *)
(* with that client_id.                                                    *)
(***************************************************************************)
C8_None ==
    ( /\ Resolved
      /\ HeaderPresented = None
      /\ IsSome(ClientIdPresented)
      /\ ClientSecretPresented = None
      /\ AssertionTypePresented = None
      /\ AssertionPresented = None )
    => /\ Succeeded
       /\ Credentials = CredentialsNone(ClientIdPresented[1])

C8_Witness ==
    /\ Succeeded
    /\ HeaderPresented = None
    /\ Credentials.variant = "None"
    /\ Credentials.client_id = ClientIdPresented[1]

(***************************************************************************)
(* C9: a request with no credential header and no form client_secret,      *)
(* whose client_assertion_type is the bearer URN and whose                 *)
(* client_assertion is a JWT with a string sub claim, resolves to          *)
(* ClientAssertionJwtBearer with the sub claim as client_id when the form  *)
(* client_id is absent or equal to it, whatever the JWT's signature.       *)
(***************************************************************************)
C9_ClientAssertionJwtBearer ==
    ( /\ Resolved
      /\ HeaderPresented = None
      /\ ClientSecretPresented = None
      /\ AssertionTypePresented = Some(JWT_BEARER_CLIENT_ASSERTION)
      /\ IsSome(SubPresented)
      /\ ClientIdPresented \in {None, SubPresented} )
    => /\ Succeeded
       /\ Credentials.variant = "ClientAssertionJwtBearer"
       /\ Credentials.client_id = SubPresented[1]
       /\ Credentials.jwt.signature = AssertionPresented[1].signer

\* A JWT whose signature no key verifies is resolved all the same.
C9_Witness ==
    /\ Succeeded
    /\ Credentials.variant = "ClientAssertionJwtBearer"
    /\ Credentials.jwt.signature.key = 0
    /\ ClientIdPresented = Some(Credentials.client_id)

(***************************************************************************)
(* C10, as stated: a request with no credential header whose form has a    *)
(* client_assertion and a client_assertion_type other than the bearer URN  *)
(* fails with UnsupportedClientAssertion carrying that type, whether or    *)
(* not the form also carries a client_id.                                  *)
(***************************************************************************)
C10_AsStated ==
    ( /\ Resolved
      /\ HeaderPresented = None
      /\ IsSome(AssertionPresented)
      /\ IsSome(AssertionTypePresented)
      /\ AssertionTypePresented[1] # JWT_BEARER_CLIENT_ASSERTION )
    => outcome[1] = Err(UnsupportedClientAssertion(AssertionTypePresented[1]))

(***************************************************************************)
(* C10, amended: a request with no credential header whose form has        *)
(* neither client_id nor client_secret and has a client_assertion and a    *)
(* client_assertion_type other than the bearer URN fails with              *)
(* UnsupportedClientAssertion carrying exactly that type; with a form      *)
(* client_id or client_secret beside them it fails with InvalidRequest.    *)
(***************************************************************************)
C10_UnsupportedClientAssertion ==
    ( /\ Resolved
      /\ HeaderPresented = None
      /\ IsSome(AssertionPresented)
      /\ IsSome(AssertionTypePresented)
      /\ AssertionTypePresented[1] # JWT_BEARER_CLIENT_ASSERTION )
    => IF ClientIdPresented = None /\ ClientSecretPresented = None
       THEN outcome[1] = Err(UnsupportedClientAssertion(AssertionTypePresented[1]))
       ELSE outcome[1] = Err(InvalidRequest)

C10_Witness ==
    /\ Failed
    /\ HeaderPresented = None
    /\ ClientIdPresented = None
    /\ outcome[1].err.variant = "UnsupportedClientAssertion"
    /\ outcome[1].err.client_assertion_type = AssertionTypePresented[1]
    /\ outcome[1].err.client_assertion_type # JWT_BEARER_CLIENT_ASSERTION

(***************************************************************************)
(* C11: a request with no credential header in which all four credential   *)
(* form fields are absent, the form having none of them or the body being  *)
(* no form at all, fails with MissingCredentials; no other request does.   *)
(***************************************************************************)
NothingPresented ==
    /\ HeaderPresented = None
    /\ ClientIdPresented = None
    /\ ClientSecretPresented = None
    /\ AssertionTypePresented = None
    /\ AssertionPresented = None

C11_MissingCredentials ==
    /\ (Resolved /\ NothingPresented) => outcome[1] = Err(MissingCredentials)
    /\ (Returned /\ outcome[1] = Err(MissingCredentials)) =>
           /\ request.header.kind = "Missing"
           /\ request.body.kind \in {"Form", "InvalidFormContentType"}
           /\ NothingPresented

\* MissingCredentials for a body that is no form.
C11_Witness ==
    /\ Failed
    /\ request.header.kind = "Missing"
    /\ request.body.kind = "InvalidFormContentType"
    /\ outcome[1].err = MissingCredentials

(***************************************************************************)
(* C12: InvalidRequest is the outcome of a secret in the header beside a   *)
(* client_secret in the form, whether the secrets and the client_ids agree *)
(* or not; of a header or a form secret beside an assertion field; of only *)
(* one of client_assertion_type and client_assertion; and of a form        *)
(* client_secret without a form client_id.                                 *)
(***************************************************************************)
C12_InvalidRequest ==
    ( /\ Resolved
      /\ \/ IsSome(HeaderPresented) /\ IsSome(ClientSecretPresented)
         \/ /\ IsSome(HeaderPresented) \/ IsSome(ClientSecretPresented)
            /\ IsSome(AssertionTypePresented) \/ IsSome(AssertionPresented)
         \/ IsSome(AssertionTypePresented) # IsSome(AssertionPresented)
         \/ IsSome(ClientSecretPresented) /\ ClientIdPresented = None )
    => outcome[1] = Err(InvalidRequest)

\* The same secret in header and form, under two different client_ids.
C12_Witness ==
    /\ Failed
    /\ IsSome(HeaderPresented)
    /\ ClientSecretPresented = Some(request.header.password)
    /\ IsSome(ClientIdPresented)
    /\ ClientIdPresented[1] # request.header.username
    /\ AssertionTypePresented = None
    /\ AssertionPresented = None
    /\ outcome[1].err = InvalidRequest

(***************************************************************************)
(* The call of verify a state records.                                     *)
(***************************************************************************)
HasVerified == verified # None
Verification == verified[1]
StoredSecret == Verification.client.encrypted_client_secret

(***************************************************************************)
(* C13: for ClientSecretBasic against client_secret_basic and              *)
(* ClientSecretPost against client_secret_post, verify returns             *)
(* InvalidClientConfig when the client has no encrypted secret, else       *)
(* DecryptionError when it does not decrypt, else ClientSecretMismatch     *)
(* when the presented secret differs from the decrypted one, else Ok.      *)
(***************************************************************************)
C13_SecretOrder ==
    ( /\ HasVerified
      /\ <<Credentials.variant, Verification.method>> \in
             {<<"ClientSecretBasic", "client_secret_basic">>,
              <<"ClientSecretPost", "client_secret_post">>} )
    => /\ Verification.result =
              IF StoredSecret = None THEN Err(InvalidClientConfig)
              ELSE IF ~StoredSecret[1].intact THEN Err(DecryptionError)
              ELSE IF StoredSecret[1].plain # Credentials.client_secret
              THEN Err(ClientSecretMismatch)
              ELSE Ok("unit")
       /\ Verification.result.ok <=>
              /\ IsSome(StoredSecret)
              /\ StoredSecret[1].intact
              /\ StoredSecret[1].plain = Credentials.client_secret

\* A secret from the form that differs from the stored one.
C13_Witness ==
    /\ HasVerified
    /\ Credentials.variant = "ClientSecretPost"
    /\ Verification.method = "client_secret_post"
    /\ IsSome(StoredSecret)
    /\ StoredSecret[1].intact
    /\ Verification.result = Err(ClientSecretMismatch)

(***************************************************************************)
(* C14: for ClientAssertionJwtBearer against private_key_jwt, verify       *)
(* returns InvalidClientConfig, with no fetch, when the client has no JWKS *)
(* source, else JwksFetchFailed when resolving it fails, else              *)
(* InvalidAssertionSignature when the signature does not verify against    *)
(* the resolved key set, else Ok; the stored secret plays no role.         *)
(***************************************************************************)
C14_PrivateKeyJwtOrder ==
    ( /\ HasVerified
      /\ Credentials.variant = "ClientAssertionJwtBearer"
      /\ Verification.method = "private_key_jwt" )
    => LET source == Verification.client.jwks
           fetched == Verification.fetched
       IN  /\ Verification.decrypted = <<>>
           /\ IF source = None
              THEN /\ Verification.result = Err(InvalidClientConfig)
                   /\ fetched = <<>>
              ELSE IF source[1].kind = "Jwks"
              THEN /\ fetched = <<>>
                   /\ Verification.result =
                          IF VerifyWithJwks(Credentials.jwt, source[1].keys)
                          THEN Ok("unit") ELSE Err(InvalidAssertionSignature)
              ELSE /\ Len(fetched) = 1
                   /\ Verification.result =
                          IF fetched[1].kind # "KeySet"
                          THEN Err(JwksFetchFailed(fetched[1].kind))
                          ELSE IF VerifyWithJwks(Credentials.jwt, fetched[1].keys)
                          THEN Ok("unit") ELSE Err(InvalidAssertionSignature)

\* No JWKS source, while the client stores the very secret that signed the JWT.
C14_Witness ==
    /\ HasVerified
    /\ Credentials.variant = "ClientAssertionJwtBearer"
    /\ Verification.method = "private_key_jwt"
    /\ Verification.client.jwks = None
    /\ IsSome(StoredSecret)
    /\ StoredSecret[1].intact
    /\ Credentials.jwt.signature = [alg |-> "HS256", key |-> StoredSecret[1].plain]
    /\ Verification.result = Err(InvalidClientConfig)

(***************************************************************************)
(* C15: for ClientAssertionJwtBearer against client_secret_jwt, verify     *)
(* returns InvalidClientConfig when the client has no encrypted secret,    *)
(* else DecryptionError when it does not decrypt, else Ok when the JWT was *)
(* signed with the decrypted secret and InvalidAssertionSignature when it  *)
(* was signed with anything else.                                          *)
(***************************************************************************)
C15_ClientSecretJwt ==
    ( /\ HasVerified
      /\ Credentials.variant = "ClientAssertionJwtBearer"
      /\ Verification.method = "client_secret_jwt" )
    => /\ Verification.fetched = <<>>
       /\ Verification.result =
              IF StoredSecret = None THEN Err(InvalidClientConfig)
              ELSE IF ~StoredSecret[1].intact THEN Err(DecryptionError)
              ELSE IF Credentials.jwt.signature =
                          [alg |-> "HS256", key |-> StoredSecret[1].plain]
              THEN Ok("unit")
              ELSE Err(InvalidAssertionSignature)

\* A JWT signed with a secret other than the stored one.
C15_Witness ==
    /\ HasVerified
    /\ Credentials.variant = "ClientAssertionJwtBearer"
    /\ Verification.method = "client_secret_jwt"
    /\ IsSome(StoredSecret)
    /\ StoredSecret[1].intact
    /\ Credentials.jwt.signature.alg = "HS256"
    /\ Credentials.jwt.signature.key \in ClientSecrets
    /\ Credentials.jwt.signature.key # StoredSecret[1].plain
    /\ Verification.result = Err(InvalidAssertionSignature)

(***************************************************************************)
(* C16: is_internal is true exactly of DecryptionError,                    *)
(* InvalidClientConfig and JwksFetchFailed, whatever the fetch failed of,  *)
(* and false of ClientSecretMismatch, AuthenticationMethodMismatch and     *)
(* InvalidAssertionSignature: a failure of verify is internal exactly when *)
(* the client record or the fetch is at fault, not what was presented.     *)
(***************************************************************************)
\* The declared method has an arm for the credentials, and what that arm
\* needs of the client record is missing, does not decrypt or is not fetched.
ConfigurationFault ==
    /\ <<Credentials.variant, Verification.method>> \in MatchingPairs
    /\ IF Verification.method \in
              {"client_secret_basic", "client_secret_post", "client_secret_jwt"}
       THEN StoredSecret = None \/ ~StoredSecret[1].intact
       ELSE IF Verification.method = "private_key_jwt"
       THEN \/ Verification.client.jwks = None
            \/ /\ Verification.client.jwks[1].kind = "JwksUri"
               /\ Verification.fetched[1].kind # "KeySet"
       ELSE FALSE

C16_IsInternal ==
    internal # None =>
        LET e == Verification.result.err IN
        /\ e.variant \in {"DecryptionError", "InvalidClientConfig", "JwksFetchFailed"}
               => internal[1]
        /\ e.variant \in {"ClientSecretMismatch", "AuthenticationMethodMismatch",
                          "InvalidAssertionSignature"}
               => ~internal[1]
        /\ e.variant \in {"DecryptionError", "InvalidClientConfig", "JwksFetchFailed",
                          "ClientSecretMismatch", "AuthenticationMethodMismatch",
                          "InvalidAssertionSignature"}
        /\ internal[1] <=> ConfigurationFault

\* A key set that came back unparsable is an internal failure.
C16_Witness ==
    /\ internal = Some(TRUE)
    /\ Verification.result.err = JwksFetchFailed("BadJson")

(***************************************************************************)
(* The response a state records and the error it was made of.              *)
(***************************************************************************)
Responded == http_response # None
Rejection == outcome[1].err
Reply == http_response[1]

(***************************************************************************)
(* C17: the response of a ClientAuthorizationError has status 400, unless  *)
(* the error is Internal, which has status 500 and error code              *)
(* server_error; of the 400 responses ClientIdMismatch has error code      *)
(* invalid_grant and every other variant invalid_request.                  *)
(***************************************************************************)
C17_StatusAndCode ==
    Responded =>
        /\ Rejection.variant \in
               {"InvalidHeader", "BadForm", "ClientIdMismatch",
                "UnsupportedClientAssertion", "MissingCredentials",
                "InvalidRequest", "InvalidAssertion", "Internal"}
        /\ Reply.status = IF Rejection.variant = "Internal" THEN 500 ELSE 400
        /\ Reply.body.error =
               IF Rejection.variant = "Internal" THEN "server_error"
               ELSE IF Rejection.variant = "ClientIdMismatch" THEN "invalid_grant"
               ELSE "invalid_request"

C17_Witness ==
    /\ Responded
    /\ Rejection.variant = "ClientIdMismatch"
    /\ Reply.status = 400
    /\ Reply.body.error = "invalid_grant"

(***************************************************************************)
(* C18: turning a ClientAuthorizationError into a response captures an     *)
(* event to error telemetry if and only if the error is Internal; the      *)
(* event of an Internal error is that error and its identifier is          *)
(* attached to the response, and no other response carries an identifier.  *)
(***************************************************************************)
C18_Telemetry ==
    /\ ~Responded => telemetry = <<>>
    /\ Responded =>
           IF Rejection.variant = "Internal"
           THEN /\ telemetry = <<Rejection>>
                /\ Reply.sentry_event_id = Some(1)
           ELSE /\ telemetry = <<>>
                /\ Reply.sentry_event_id = None

\* A body whose stream broke: captured, and the response names the event.
C18_Witness ==
    /\ Responded
    /\ Rejection.variant = "Internal"
    /\ Len(telemetry) = 1
    /\ Reply.sentry_event_id = Some(Len(telemetry))

(***************************************************************************)
(* C19: the response of an Internal error is generic: its body, error code *)
(* and error_description, is the one the response of an Internal error of  *)
(* any other cause has.                                                    *)
(***************************************************************************)
C19_GenericInternalResponse ==
    (Responded /\ Rejection.variant = "Internal") =>
        \A c \in BodyFailures :
            Reply.body =
                ErrorResponse(Internal([kind |-> "BytesRejection", cause |-> c]),
                              None).body

(***************************************************************************)
(* C20: a body whose content type is not form-like is no error: the four   *)
(* credential form fields are absent and the residual payload is None, so  *)
(* that a request with only a header resolves to ClientSecretBasic with no *)
(* form; a form-like body that does not deserialize fails with BadForm,    *)
(* well-formed header credentials or not; any other failure to read the    *)
(* body fails with Internal; and the residual payload is Some exactly when *)
(* the body was parsed as a form.                                          *)
(***************************************************************************)
C20_BodyDecoding ==
    /\ IsSome(form_values.form) <=> (HasForm /\ body_read)
    /\ (body_read /\ ~HasForm) => form_values = NoFormValues
    /\ (Returned /\ request.header.kind # "Error") =>
           /\ request.body.kind = "InvalidFormContentType" =>
                  outcome[1] =
                      IF request.header.kind = "Basic"
                      THEN Ok([credentials |->
                                   ClientSecretBasic(request.header.username,
                                                     request.header.password),
                               form |-> None])
                      ELSE Err(MissingCredentials)
           /\ request.body.kind = "FailedToDeserializeForm" =>
                  outcome[1] = Err(BadForm(request.body))
           /\ request.body.kind = "BytesRejection" =>
                  outcome[1] = Err(Internal(request.body))
           /\ (Failed /\ outcome[1].err.variant = "BadForm") =>
                  request.body.kind = "FailedToDeserializeForm"
           /\ (Failed /\ outcome[1].err.variant = "Internal") =>
                  request.body.kind = "BytesRejection"
    /\ Succeeded =>
           outcome[1].val.form =
               IF HasForm THEN Some(request.body.form.inner) ELSE None

\* Credentials in the header alone, the body being no form.
C20_Witness ==
    /\ Succeeded
    /\ request.body.kind = "InvalidFormContentType"
    /\ Credentials.variant = "ClientSecretBasic"
    /\ outcome[1].val.form = None

(***************************************************************************)
(* C21: one call of verify makes at most one JWKS fetch and at most one    *)
(* decryption; it fetches exactly for ClientAssertionJwtBearer against a   *)
(* private_key_jwt client whose JWKS source is a URI; an inline JWKS costs *)
(* no fetch and never gives JwksFetchFailed; every failed fetch ends the   *)
(* call with JwksFetchFailed; and a call that ends in                      *)
(* AuthenticationMethodMismatch or InvalidClientConfig has fetched and     *)
(* decrypted nothing.                                                      *)
(***************************************************************************)
C21_SingleFetch ==
    HasVerified =>
        LET jwks == Verification.client.jwks
            result == Verification.result
        IN  /\ Len(Verification.fetched) <= 1
            /\ Len(Verification.decrypted) <= 1
            /\ Verification.fetched # <<>> <=>
                   /\ Credentials.variant = "ClientAssertionJwtBearer"
                   /\ Verification.method = "private_key_jwt"
                   /\ jwks = Some([kind |-> "JwksUri"])
            /\ Verification.decrypted # <<>> =>
                   Verification.decrypted = <<StoredSecret[1]>>
            /\ (IsSome(jwks) /\ jwks[1].kind = "Jwks") =>
                   ~(~result.ok /\ result.err.variant = "JwksFetchFailed")
            /\ (Verification.fetched # <<>> /\ Verification.fetched[1].kind # "KeySet") =>
                   result = Err(JwksFetchFailed(Verification.fetched[1].kind))
            /\ ( /\ ~result.ok
                 /\ result.err.variant \in
                        {"AuthenticationMethodMismatch", "InvalidClientConfig"} ) =>
                   Verification.fetched = <<>> /\ Verification.decrypted = <<>>

\* A GET answered with an error status: one fetch, and JwksFetchFailed.
C21_Witness ==
    /\ HasVerified
    /\ Verification.fetched = <<[kind |-> "ErrorStatus"]>>
    /\ Verification.result = Err(JwksFetchFailed("ErrorStatus"))

\* The requests that reach the JWT bearer arm of the resolution.
JwtBearerPath ==
    /\ Resolved
    /\ HeaderPresented = None
    /\ ClientSecretPresented = None
    /\ AssertionTypePresented = Some(JWT_BEARER_CLIENT_ASSERTION)
    /\ IsSome(AssertionPresented)

(***************************************************************************)
(* C22: on the JWT bearer path an assertion that is no JWT, or whose sub   *)
(* claim is missing or no string, fails with InvalidAssertion whatever     *)
(* client_id the form carries; ClientIdMismatch is returned only when a    *)
(* string sub claim was extracted and differs from the form's client_id,   *)
(* and carries credential = sub and form = the form's client_id.           *)
(***************************************************************************)
C22_AssertionOrder ==
    JwtBearerPath =>
        /\ SubPresented = None => outcome[1] = Err(InvalidAssertion)
        /\ (Failed /\ outcome[1].err.variant = "ClientIdMismatch") =>
               /\ IsSome(SubPresented)
               /\ IsSome(ClientIdPresented)
               /\ SubPresented # ClientIdPresented
        /\ ( /\ IsSome(SubPresented)
             /\ IsSome(ClientIdPresented)
             /\ SubPresented # ClientIdPresented ) =>
               outcome[1] = Err(ClientIdMismatch(SubPresented[1], ClientIdPresented[1]))

\* A JWT whose sub claim is a number, next to a form client_id.
C22_Witness ==
    /\ JwtBearerPath
    /\ AssertionPresented[1].wellformed
    /\ IsSome(AssertionPresented[1].sub)
    /\ AssertionPresented[1].sub[1].ty = "Number"
    /\ IsSome(ClientIdPresented)
    /\ outcome[1] = Err(InvalidAssertion)

(***************************************************************************)
(* C23: Credentials::None against a client whose declared method is none   *)
(* succeeds whatever the client record stores, an encrypted secret or a    *)
(* JWKS source included; against any other declared method it fails with   *)
(* AuthenticationMethodMismatch.                                           *)
(***************************************************************************)
C23_NoneMethod ==
    (HasVerified /\ Credentials.variant = "None") =>
        /\ Verification.result =
               IF Verification.method = "none"
               THEN Ok("unit")
               ELSE Err(AuthenticationMethodMismatch)
        /\ Verification.fetched = <<>>
        /\ Verification.decrypted = <<>>

\* A client declared none that stores a secret and a JWKS source.
C23_Witness ==
    /\ HasVerified
    /\ Credentials.variant = "None"
    /\ Verification.method = "none"
    /\ IsSome(StoredSecret)
    /\ IsSome(Verification.client.jwks)
    /\ Verification.result.ok

(***************************************************************************)
(* get_requester: what it was called with, and what it came to.            *)
(***************************************************************************)
RequesterReturned == position = "returned"
TokenPresented == IsSome(args.token)
\* Every call of the repository that was made came back.
NoRepositoryError == \A i \in 1 .. Len(repo.calls) : repo.calls[i].result.ok
\* The calls made of the repository, by name.
RepositoryCalls == [i \in 1 .. Len(repo.calls) |-> repo.calls[i].call]
\* What the repository holds for the presented token.
TokenRow == repo.rows.access_token
SessionRow == repo.rows.session
UserRow == repo.rows.user
UserMissing == IsSome(SessionRow[1].user_id) /\ UserRow = None
\* The user of the session, as far as the session has one.
SessionUser == IF IsSome(SessionRow[1].user_id) THEN UserRow ELSE None
AllValid ==
    /\ AccessTokenIsValid(TokenRow[1], args.now)
    /\ SessionIsValid(SessionRow[1])
    /\ SessionUser = None \/ UserIsValid(SessionUser[1])
\* The activity of OAuth 2.0 sessions that was recorded.
OAuth2Activity == SelectSeq(activity_tracker, LAMBDA a : a.kind = "oauth2_session")

(***************************************************************************)
(* C24: with a bearer token presented, get_requester gives an              *)
(* OAuth2Session requester only if the listener enables                    *)
(* undocumented_oauth2_access, the token, its session and its user (when   *)
(* the session has one) exist, the token is valid now, the session and the *)
(* user are valid and the scope contains urn:mas:graphql:*.  As long as    *)
(* the repository answers, failures are decided in this order: access      *)
(* disabled (with no call of the repository at all) or unknown token,      *)
(* InvalidToken; missing session or missing user, LoadFailed; invalid      *)
(* token, session or user, InvalidToken; missing scope, MissingScope.  A   *)
(* presented token never falls back to the cookie session.                 *)
(***************************************************************************)
C24_TokenRequester ==
    (RequesterReturned /\ TokenPresented) =>
        /\ requester[1].ok =>
               /\ requester[1].val.entity = OAuth2Session(SessionRow[1], SessionUser)
               /\ args.undocumented_oauth2_access
               /\ IsSome(TokenRow) /\ IsSome(SessionRow) /\ ~UserMissing
               /\ AllValid
               /\ GRAPHQL_SCOPE \in SessionRow[1].scope
        /\ ~args.undocumented_oauth2_access =>
               repo.calls = <<>> /\ requester[1] = Err(InvalidToken)
        /\ NoRepositoryError =>
               requester[1] =
                   IF ~args.undocumented_oauth2_access \/ TokenRow = None
                   THEN Err(InvalidToken)
                   ELSE IF SessionRow = None \/ UserMissing
                   THEN Err(LoadFailed)
                   ELSE IF ~AllValid
                   THEN Err(InvalidToken)
                   ELSE IF GRAPHQL_SCOPE \notin SessionRow[1].scope
                   THEN Err(MissingScope)
                   ELSE Ok([entity |-> OAuth2Session(SessionRow[1], SessionUser),
                            ip_address |-> args.ip_address,
                            user_agent |-> args.user_agent])
        /\ (~requester[1].ok /\ requester[1].err.variant = "Internal") =>
               ~NoRepositoryError
        /\ \A i \in 1 .. Len(repo.calls) :
               repo.calls[i].call # "session_info.load_active_session"
        /\ \A i \in 1 .. Len(activity_tracker) :
               activity_tracker[i].kind # "browser_session"

\* An expired token of a session without the scope, next to a cookie
\* session: InvalidToken, the cookie session never looked at.
C24_Witness ==
    /\ RequesterReturned
    /\ TokenPresented
    /\ IsSome(repo.rows.active_session)
    /\ IsSome(TokenRow) /\ IsSome(SessionRow)
    /\ ~AccessTokenIsValid(TokenRow[1], args.now)
    /\ ~TokenRow[1].revoked
    /\ GRAPHQL_SCOPE \notin SessionRow[1].scope
    /\ requester[1] = Err(InvalidToken)
    /\ Len(repo.calls) >= 2

(***************************************************************************)
(* C25: with a bearer token presented, the activity of the OAuth 2.0       *)
(* session is recorded exactly when the token's session was loaded, once,  *)
(* for that session at the current time: also when get_requester then      *)
(* fails with LoadFailed for a missing user, with InvalidToken or with     *)
(* MissingScope; not when access is disabled or the token is unknown.  On  *)
(* success the repository is cancelled; it is never committed.             *)
(***************************************************************************)
C25_ActivityFirst ==
    /\ (RequesterReturned /\ TokenPresented) =>
           LET session_loaded ==
                   \E i \in 1 .. Len(repo.calls) :
                       /\ repo.calls[i].call = "oauth2_session.lookup"
                       /\ repo.calls[i].result.ok
                       /\ IsSome(repo.calls[i].result.val)
           IN  /\ activity_tracker =
                      IF session_loaded
                      THEN <<[kind |-> "oauth2_session", session |-> SessionRow[1],
                              at |-> args.now]>>
                      ELSE <<>>
               /\ (~args.undocumented_oauth2_access \/ TokenRow = None) =>
                      activity_tracker = <<>>
               /\ ( /\ IsSome(SessionRow)
                    /\ \/ requester[1] = Err(MissingScope)
                       \/ requester[1] = Err(LoadFailed)
                       \/ /\ requester[1] = Err(InvalidToken)
                          /\ args.undocumented_oauth2_access
                          /\ IsSome(TokenRow) ) =>
                      Len(OAuth2Activity) = 1
    /\ RequesterReturned =>
           /\ requester[1].ok <=> repo.state = "cancelled"
           /\ ~requester[1].ok <=> repo.state = "dropped"
    /\ repo.state \in {"open", "cancelled", "dropped"}

\* A session whose user is locked: InvalidToken, and the activity recorded.
C25_Witness ==
    /\ RequesterReturned
    /\ TokenPresented
    /\ requester[1] = Err(InvalidToken)
    /\ IsSome(TokenRow) /\ IsSome(SessionRow)
    /\ IsSome(UserRow) /\ UserRow[1].locked
    /\ AccessTokenIsValid(TokenRow[1], args.now)
    /\ SessionIsValid(SessionRow[1])
    /\ Len(OAuth2Activity) = 1

====
